---- MODULE Spec2Model ----
\* Henvdall: sync of a .env file with its .env.example template, audit of
\* placeholder values, and the validator both rest on.
\*
\* Python strings are modelled as sequences of one-character strings, so
\* "A=1" is <<"A", "=", "1">>.  Optional[str] is a sequence of length <= 1:
\* None is <<>> and the string s is <<s>>.
EXTENDS Integers, Sequences, FiniteSets, TLC

\* ---------------------------------------------------------------- bounds
MaxTemplateLines == 3
MaxEnvLines == 1
MaxAuditLines == 3
MaxParseLines == 3

\* ------------------------------------------------------------ characters
UpperCase == <<"A","B","C","D","E","F","G","H","I","J","K","L","M",
               "N","O","P","Q","R","S","T","U","V","W","X","Y","Z">>
LowerCase == <<"a","b","c","d","e","f","g","h","i","j","k","l","m",
               "n","o","p","q","r","s","t","u","v","w","x","y","z">>
Digits == {"0","1","2","3","4","5","6","7","8","9"}

IsUpper(c) == \E i \in 1..26 : UpperCase[i] = c
IsLower(c) == \E i \in 1..26 : LowerCase[i] = c
IsAlpha(c) == IsUpper(c) \/ IsLower(c)
IsDigit(c) == c \in Digits
\* str.isspace / regex \s on the characters a line can hold
IsSpace(c) == c \in {" ", "\t", "\n", "\r"}
\* regex \w
IsWordChar(c) == IsAlpha(c) \/ IsDigit(c) \/ c = "_"

\* str.lower, one character
LowerChar(c) ==
    IF IsUpper(c) THEN LowerCase[CHOOSE i \in 1..26 : UpperCase[i] = c] ELSE c
\* str.lower
Lower(s) == [i \in 1..Len(s) |-> LowerChar(s[i])]

MinOf(S) == CHOOSE x \in S : \A y \in S : x <= y
MaxOf(S) == CHOOSE x \in S : \A y \in S : x >= y

\* str.strip
Strip(s) ==
    LET keep == {i \in 1..Len(s) : ~IsSpace(s[i])}
    IN  IF keep = {} THEN <<>> ELSE SubSeq(s, MinOf(keep), MaxOf(keep))

\* str.rstrip('\n')
RStripNewline(s) ==
    LET keep == {i \in 1..Len(s) : s[i] # "\n"}
    IN  IF keep = {} THEN <<>> ELSE SubSeq(s, 1, MaxOf(keep))

\* needle in haystack (substring test)
StartsAt(s, i, pat) ==
    /\ i + Len(pat) - 1 <= Len(s)
    /\ \A j \in 1..Len(pat) : s[i + j - 1] = pat[j]
Contains(s, pat) == \E i \in 1..(Len(s) + 1) : StartsAt(s, i, pat)
HasChar(s, c) == \E i \in 1..Len(s) : s[i] = c

\* Optional[str]
None == <<>>
Some(s) == <<s>>
IsNone(o) == o = <<>>

\* ---------------------------------------------------------------- parser
\* The lines `for line in f` yields: each ends with its "\n" except possibly
\* the last.
RECURSIVE FileLines(_)
FileLines(text) ==
    IF text = <<>> THEN <<>>
    ELSE LET nl == {i \in 1..Len(text) : text[i] = "\n"}
         IN  IF nl = {} THEN <<text>>
             ELSE <<SubSeq(text, 1, MinOf(nl))>>
                  \o FileLines(SubSeq(text, MinOf(nl) + 1, Len(text)))

EnvEntry(k, v, c) == [key |-> k, value |-> v, comment |-> c]

\* EnvFileParser._unquote_value
UnquoteValue(v) ==
    IF /\ Len(v) >= 2
       /\ \/ (v[1] = "\"" /\ v[Len(v)] = "\"")
          \/ (v[1] = "'" /\ v[Len(v)] = "'")
    THEN SubSeq(v, 2, Len(v) - 1)
    ELSE v

\* ENV_LINE_PATTERN.match(line): <<>> when the line does not match, else
\* <<[g1, g2, g3]>> with g3 an Optional[str] (the group did not take part
\* in the match when there is no '#').
\*   ^\s*([A-Za-z_][A-Za-z0-9_]*)\s*=\s*([^#]*?)(?:\s*#\s*(.*))?$
EnvLineMatch(line) ==
    LET n == Len(line)
        \* ^\s* : the key starts at the first non-blank character
        ks == MinOf({i \in 1..(n + 1) : i = n + 1 \/ ~IsSpace(line[i])})
        keyOk == ks <= n /\ (IsAlpha(line[ks]) \/ line[ks] = "_")
        \* the key is the longest run of [A-Za-z0-9_]
        ke == MinOf({i \in ks..(n + 1) : i = n + 1 \/ ~IsWordChar(line[i])})
        \* \s*=
        eq == MinOf({i \in ke..(n + 1) : i = n + 1 \/ ~IsSpace(line[i])})
        eqOk == eq <= n /\ line[eq] = "="
        \* \s* is greedy: the value starts at the first non-blank after '='
        vs == MinOf({i \in (eq + 1)..(n + 1) : i = n + 1 \/ ~IsSpace(line[i])})
        hashes == {i \in (eq + 1)..n : line[i] = "#"}
        hasHash == hashes # {}
        h == IF hasHash THEN MinOf(hashes) ELSE n + 1
        \* [^#]*? is lazy: it stops where \s*# can match, or at the end
        blanksBefore == {i \in vs..h : \A j \in i..(h - 1) : IsSpace(line[j])}
        ve == IF hasHash THEN MinOf(blanksBefore) ELSE n + 1
        \* #\s*(.*) : the comment group starts after the blanks behind '#'
        cs == MinOf({i \in (h + 1)..(n + 1) : i = n + 1 \/ ~IsSpace(line[i])})
        \* . does not match a newline, so (.*)$ needs none behind '#'
        dotOk == \A i \in (h + 1)..n : line[i] # "\n"
    IN  IF ~keyOk THEN <<>>
        ELSE IF ~eqOk THEN <<>>
        ELSE IF hasHash /\ ~dotOk THEN <<>>
        ELSE <<[g1 |-> SubSeq(line, ks, ke - 1),
                g2 |-> SubSeq(line, vs, ve - 1),
                g3 |-> IF hasHash THEN Some(SubSeq(line, cs, n)) ELSE None]>>

\* entries.setdefault(key, entry): the first line of a key wins
DictSetFirstWins(entries, e) ==
    IF \E i \in 1..Len(entries) : entries[i].key = e.key
    THEN entries
    ELSE Append(entries, e)

\* dict[key] = entry: a new key is appended, a known key keeps its position
DictSet(entries, e) ==
    IF \E i \in 1..Len(entries) : entries[i].key = e.key
    THEN [i \in 1..Len(entries) |->
             IF entries[i].key = e.key THEN e ELSE entries[i]]
    ELSE Append(entries, e)

\* The body of the loop of parse_file, for one line
ParseLine(entries, rawLine) ==
    LET line == RStripNewline(rawLine)
        m == EnvLineMatch(line)
    IN  IF Strip(line) = <<>> \/ Strip(line)[1] = "#" THEN entries
        ELSE IF m = <<>> THEN entries
        ELSE LET g == m[1]
                 cm == IF ~IsNone(g.g3) /\ g.g3[1] # <<>>
                       THEN Some(Strip(g.g3[1])) ELSE None
             IN  DictSet(entries, EnvEntry(g.g1, UnquoteValue(Strip(g.g2)), cm))

RECURSIVE ParseLines(_, _)
ParseLines(entries, lines) ==
    IF lines = <<>> THEN entries
    ELSE ParseLines(ParseLine(entries, Head(lines)), Tail(lines))

\* A file is an Optional text: <<>> when the path does not exist.
\* EnvFileParser.parse_file
ParseFile(file) ==
    IF file = <<>> THEN <<>> ELSE ParseLines(<<>>, FileLines(file[1]))

\* EnvFileParser.format_entry
FormatEntry(key, value) ==
    IF HasChar(value, " ") \/ HasChar(value, "#") \/ HasChar(value, "$")
       \/ HasChar(value, "\\")
    THEN key \o <<"=">> \o <<"\"">> \o value \o <<"\"">>
    ELSE key \o <<"=">> \o value

\* dict lookups on an EntryMap
Keys(entries) == [i \in 1..Len(entries) |-> entries[i].key]
HasKey(entries, k) == \E i \in 1..Len(entries) : entries[i].key = k
Get(entries, k) == entries[CHOOSE i \in 1..Len(entries) : entries[i].key = k]

\* ------------------------------------------------------------- validator
\* ValidationResult(is_valid=..., error_message=...)
ValidationResult(ok, msg) == [is_valid |-> ok, error_message |-> msg]

\* Whether int(value) returns (rather than raising ValueError): blanks
\* around, one optional sign, decimal digits, single underscores between
\* digits.
IntParses(value) ==
    LET s == Strip(value)
        signed == Len(s) >= 1 /\ s[1] \in {"+", "-"}
        body == IF signed THEN SubSeq(s, 2, Len(s)) ELSE s
        m == Len(body)
    IN  /\ m >= 1
        /\ \A i \in 1..m : IsDigit(body[i]) \/ body[i] = "_"
        /\ IsDigit(body[1]) /\ IsDigit(body[m])
        /\ \A i \in 1..(m - 1) : ~(body[i] = "_" /\ body[i + 1] = "_")

\* EnvValueValidator.validate_int
ValidateInt(value) ==
    IF IntParses(value)
    THEN ValidationResult(TRUE, None)
    ELSE ValidationResult(FALSE,
             Some(<<"'">> \o value \o <<"' is not a valid integer">>))

\* urllib.parse.urlparse(value), as far as validate_url reads it: whether
\* it raised, and the scheme and netloc it returned.  A netloc with only one
\* of "[" and "]" raises ValueError; one with both is checked as an IP
\* literal by the library, a case none of the values below holds.
UrlParse(value) ==
    LET \* leading blanks are stripped, tab and newline characters removed
        ls == MinOf({i \in 1..(Len(value) + 1) :
                        i = Len(value) + 1 \/ ~IsSpace(value[i])})
        u0 == SubSeq(value, ls, Len(value))
        u == SelectSeq(u0, LAMBDA c : c \notin {"\t", "\n", "\r"})
        colons == {i \in 1..Len(u) : u[i] = ":"}
        ci == IF colons = {} THEN 0 ELSE MinOf(colons)
        hasScheme == /\ ci > 1
                     /\ IsAlpha(u[1])
                     /\ \A i \in 1..(ci - 1) :
                           IsAlpha(u[i]) \/ IsDigit(u[i]) \/ u[i] \in {"+", "-", "."}
        scheme == IF hasScheme THEN Lower(SubSeq(u, 1, ci - 1)) ELSE <<>>
        rest == IF hasScheme THEN SubSeq(u, ci + 1, Len(u)) ELSE u
        hasNetloc == Len(rest) >= 2 /\ rest[1] = "/" /\ rest[2] = "/"
        delims == {i \in 3..Len(rest) : rest[i] \in {"/", "?", "#"}}
        ne == IF delims = {} THEN Len(rest) ELSE MinOf(delims) - 1
        netloc == IF hasNetloc THEN SubSeq(rest, 3, ne) ELSE <<>>
        \* ValueError("Invalid IPv6 URL")
        raised == HasChar(netloc, "[") # HasChar(netloc, "]")
    IN  [raised |-> raised, scheme |-> scheme, netloc |-> netloc]

\* validate_url with the message of the "no scheme or no netloc" branch left out
ValidateUrlSilent(value) ==
    LET r == UrlParse(value)
    IN  IF r.raised
        THEN ValidationResult(FALSE,
                 Some(<<"'">> \o value \o <<"' is not a valid URL: ">>
                      \o <<"Invalid IPv6 URL">>))
        ELSE IF r.scheme # <<>> /\ r.netloc # <<>>
        THEN ValidationResult(TRUE, None)
        ELSE ValidationResult(FALSE, None)

\* EnvValueValidator.validate_url
ValidateUrl(value) ==
    LET r == UrlParse(value)
    IN  IF r.raised
        THEN ValidationResult(FALSE,
                 Some(<<"'">> \o value \o <<"' is not a valid URL: ">>
                      \o <<"Invalid IPv6 URL">>))
        ELSE IF r.scheme # <<>> /\ r.netloc # <<>>
        THEN ValidationResult(TRUE, None)
        ELSE ValidationResult(FALSE,
                 Some(<<"'">> \o value
                      \o <<"' is not a valid URL (must include scheme and domain)">>))

\* validate_value without the .lower() of the hint
ValidateValueNoLower(value, validation_type) ==
    IF IsNone(validation_type) \/ validation_type = Some(<<>>)
    THEN ValidationResult(TRUE, None)
    ELSE LET t == Strip(validation_type[1])
         IN  IF t = <<"i", "n", "t">> THEN ValidateInt(value)
             ELSE IF t = <<"u", "r", "l">> THEN ValidateUrl(value)
             ELSE ValidationResult(TRUE, None)

\* EnvValueValidator.validate_value; validation_type is an Optional[str]
ValidateValue(value, validation_type) ==
    IF IsNone(validation_type) \/ validation_type = Some(<<>>)
    THEN ValidationResult(TRUE, None)
    ELSE LET t == Strip(Lower(validation_type[1]))
         IN  IF t = <<"i", "n", "t">> THEN ValidateInt(value)
             ELSE IF t = <<"u", "r", "l">> THEN ValidateUrl(value)
             ELSE ValidationResult(TRUE, None)

\* re.search(r'\((\w+)\)', comment): the leftmost "(" that is followed by
\* one or more word characters and a ")"
TokenAt(s, i) ==
    /\ s[i] = "("
    /\ \E j \in (i + 2)..Len(s) :
          /\ s[j] = ")"
          /\ \A k \in (i + 1)..(j - 1) : IsWordChar(s[k])
TokenEnd(s, i) == MinOf({j \in (i + 2)..Len(s) : s[j] = ")"})

\* extract_validation_type returning match.group(1).lower()
ExtractValidationTypeLowered(comment) ==
    IF IsNone(comment) \/ comment = Some(<<>>) THEN None
    ELSE LET s == comment[1]
             at == {i \in 1..Len(s) : TokenAt(s, i)}
         IN  IF at = {} THEN None
             ELSE Some(Lower(SubSeq(s, MinOf(at) + 1, TokenEnd(s, MinOf(at)) - 1)))

\* EnvValueValidator.extract_validation_type; comment is an Optional[str]
ExtractValidationType(comment) ==
    IF IsNone(comment) \/ comment = Some(<<>>) THEN None
    ELSE LET s == comment[1]
             at == {i \in 1..Len(s) : TokenAt(s, i)}
         IN  IF at = {} THEN None
             ELSE Some(SubSeq(s, MinOf(at) + 1, TokenEnd(s, MinOf(at)) - 1))

\* re.search of word [_\s]? word2, case-insensitive
ContainsJoined(s, a, b) ==
    \/ Contains(Lower(s), a \o b)
    \/ \E i \in 1..Len(s) :
          /\ StartsAt(Lower(s), i, a)
          /\ i + Len(a) <= Len(s)
          /\ (s[i + Len(a)] = "_" \/ IsSpace(s[i + Len(a)]))
          /\ StartsAt(Lower(s), i + Len(a) + 1, b)

\* re.search(r"^literal$", value): $ also matches before a final newline
ExactMatch(s, lit) == s = lit \/ s = lit \o <<"\n">>

\* re.search(pattern, value) for some pattern of PLACEHOLDER_PATTERNS
MatchesPlaceholderPattern(value) ==
    LET lv == Lower(value)
    IN  \* (?i)your[_\s].*here
        \/ \E i \in 1..Len(value) :
              /\ StartsAt(lv, i, <<"y","o","u","r">>)
              /\ i + 4 <= Len(value)
              /\ (value[i + 4] = "_" \/ IsSpace(value[i + 4]))
              /\ \E j \in (i + 5)..Len(value) :
                    /\ StartsAt(lv, j, <<"h","e","r","e">>)
                    /\ \A k \in (i + 5)..(j - 1) : value[k] # "\n"
        \/ Contains(lv, <<"p","l","a","c","e","h","o","l","d","e","r">>)
        \/ ContainsJoined(value, <<"c","h","a","n","g","e">>, <<"m","e">>)
        \/ ContainsJoined(value, <<"r","e","p","l","a","c","e">>, <<"t","h","i","s">>)
        \/ Contains(lv, <<"t","o","d","o">>)
        \/ Contains(lv, <<"x","x","x">>)
        \/ ExactMatch(value, <<"a","d","m","i","n","1","2","3">>)
        \/ ExactMatch(value, <<"p","a","s","s","w","o","r","d","1","2","3">>)
        \/ ExactMatch(value, <<"t","e","s","t","1","2","3">>)
        \/ ExactMatch(value, <<"s","e","c","r","e","t">>)
        \/ ExactMatch(value, <<"c","h","a","n","g","e","m","e">>)

\* EnvValueValidator.is_placeholder
IsPlaceholder(value) ==
    \/ value = <<>> \/ Strip(value) = <<>>
    \/ MatchesPlaceholderPattern(value)

\* ------------------------------------------------------------------ sync
\* The paths of one invocation.  example_path and env_path are fixed;
\* backup_path is None, another path, or the env path itself.
Paths == {"example", "env", "env.bak", "custom.bak"}
Absent == <<>>
Exists(file) == file # <<>>

\* _find_missing_keys through a set difference, which loses the order (the
\* keys come out in another order than the template's)
FindMissingKeysUnordered(example, env) ==
    LET m == SelectSeq(Keys(example), LAMBDA k : ~HasKey(env, k))
    IN  [i \in 1..Len(m) |-> m[Len(m) + 1 - i]]

\* EnvSyncManager._find_missing_keys
FindMissingKeys(example, env) ==
    SelectSeq(Keys(example), LAMBDA k : ~HasKey(env, k))

\* EnvSyncManager._confirm_sync, on the answer Prompt.ask returned
Confirmed(response) == Lower(response) = <<"y">>

\* _create_backup with shutil.move in place of shutil.copy2
CreateBackupMove(files, bp) ==
    IF ~Exists(files["env"]) THEN [raised |-> FALSE, copied |-> FALSE, files |-> files]
    ELSE LET dst == IF IsNone(bp) THEN "env.bak" ELSE bp[1]
         IN  IF dst = "env"
             THEN [raised |-> TRUE, copied |-> FALSE, files |-> files]
             ELSE [raised |-> FALSE, copied |-> TRUE,
                   files |-> [files EXCEPT ![dst] = files["env"], !["env"] = <<>>]]

\* _create_backup that ignores the caller-supplied path
CreateBackupDefaultPath(files, bp) ==
    IF ~Exists(files["env"]) THEN [raised |-> FALSE, copied |-> FALSE, files |-> files]
    ELSE [raised |-> FALSE, copied |-> TRUE,
          files |-> [files EXCEPT !["env.bak"] = files["env"]]]

\* EnvSyncManager._create_backup: the files afterwards, and whether
\* shutil.copy2 raised SameFileError (source and destination are one file)
CreateBackup(files, bp) ==
    IF ~Exists(files["env"]) THEN [raised |-> FALSE, copied |-> FALSE, files |-> files]
    ELSE LET dst == IF IsNone(bp) THEN "env.bak" ELSE bp[1]
         IN  IF dst = "env"
             THEN [raised |-> TRUE, copied |-> FALSE, files |-> files]
             ELSE [raised |-> FALSE, copied |-> TRUE,
                   files |-> [files EXCEPT ![dst] = files["env"]]]

Marker == <<"#"," ","A","d","d","e","d"," ","b","y"," ","H","e","n","v","d","a","l","l","\n">>

RECURSIVE EntryLines(_)
\* the lines written by the loop of _append_to_env
EntryLines(entries) ==
    IF entries = <<>> THEN <<>>
    ELSE FormatEntry(Head(entries).key, Head(entries).value) \o <<"\n">>
         \o EntryLines(Tail(entries))

\* _append_to_env that writes the blank line whatever the size of the file
AppendToEnvAlwaysBlank(file, entries) ==
    LET old == IF Exists(file) THEN file[1] ELSE <<>>
    IN  Some(old \o <<"\n">> \o Marker \o EntryLines(entries))

\* _append_to_env that writes the marker without its end of line
AppendToEnvMarkerNoNewline(file, entries) ==
    LET old == IF Exists(file) THEN file[1] ELSE <<>>
    IN  Some(old \o (IF Len(old) > 0 THEN <<"\n">> ELSE <<>>)
             \o SubSeq(Marker, 1, Len(Marker) - 1) \o EntryLines(entries))

\* EnvSyncManager._append_to_env: the env file afterwards.  open(.., 'a')
\* creates a missing file, so exists() holds and st_size is the old size.
AppendToEnv(file, entries) ==
    LET old == IF Exists(file) THEN file[1] ELSE <<>>
    IN  Some(old \o (IF Len(old) > 0 THEN <<"\n">> ELSE <<>>)
             \o Marker \o EntryLines(entries))

\* ----------------------------------------------------------------- audit
\* _get_placeholder_reason testing `not value` alone, without value.strip()
GetPlaceholderReasonNoStrip(value) ==
    IF value = <<>> THEN "Empty value"
    ELSE IF MatchesPlaceholderPattern(value) THEN "Contains placeholder text"
    ELSE "Suspicious value"

\* EnvAuditor._get_placeholder_reason
GetPlaceholderReason(value) ==
    IF value = <<>> \/ Strip(value) = <<>> THEN "Empty value"
    ELSE IF MatchesPlaceholderPattern(value) THEN "Contains placeholder text"
    ELSE "Suspicious value"

RECURSIVE FindPlaceholderValues(_)
\* EnvAuditor._find_placeholder_values
FindPlaceholderValues(entries) ==
    IF entries = <<>> THEN <<>>
    ELSE LET e == Head(entries)
         IN  (IF IsPlaceholder(e.value)
              THEN <<[key |-> e.key, value |-> e.value,
                      reason |-> GetPlaceholderReason(e.value)]>>
              ELSE <<>>)
             \o FindPlaceholderValues(Tail(entries))

\* audit without the `if not issues` return
AuditorAuditNoCleanReturn(file) ==
    IF ~Exists(file)
    THEN [ret |-> FALSE, issues |-> <<>>, printed |-> "not_found"]
    ELSE LET entries == ParseFile(file)
             found == FindPlaceholderValues(entries)
         IN  IF entries = <<>>
             THEN [ret |-> FALSE, issues |-> <<>>, printed |-> "empty"]
             ELSE [ret |-> TRUE, issues |-> found, printed |-> "issues"]

\* EnvAuditor.audit: what it returns, the issues it displays, what it prints
AuditorAudit(file) ==
    IF ~Exists(file)
    THEN [ret |-> FALSE, issues |-> <<>>, printed |-> "not_found"]
    ELSE LET entries == ParseFile(file)
             found == FindPlaceholderValues(entries)
         IN  IF entries = <<>>
             THEN [ret |-> FALSE, issues |-> <<>>, printed |-> "empty"]
             ELSE IF found = <<>>
             THEN [ret |-> FALSE, issues |-> <<>>, printed |-> "clean"]
             ELSE [ret |-> TRUE, issues |-> found, printed |-> "issues"]

\* ----------------------------------------------------------------- state
VARIABLES
    fs,               \* path -> file: Absent, or Some(text)
    backup_path,      \* the --backup option: None or Some(path)
    pc,               \* where the command stands
    example_entries,  \* sync: the parsed template
    missing_keys,     \* sync: the keys to ask for
    idx,              \* sync: index in missing_keys of the key being asked
    new_entries,      \* sync: the values collected so far
    ret,              \* what sync / audit returned: "None", "True", "False"
    console,          \* the kinds of message printed so far
    summary_count,    \* sync: the count _display_summary reported
    issues,           \* audit: the issues displayed
    exit_code,        \* audit: the status the CLI exits with
    fs0,              \* history: the files when the command started
    asked,            \* history: whether a value prompt was issued
    answer,           \* history: the last answer to a value prompt
    prompt_key,       \* history: the key that answer was given for
    fs1,              \* history: the files when sync was run again, or None
    value,            \* validator call: the value argument
    validation_type,  \* validator call: the validation_type argument
    comment,          \* validator call: the comment argument
    op,               \* validator call: the function applied
    result            \* validator call: what it returned

vars == <<fs, backup_path, pc, example_entries, missing_keys, idx, new_entries,
          ret, console, summary_count, issues, exit_code, fs0, asked, answer,
          prompt_key, fs1, value, validation_type, comment, op, result>>

syncLocals == <<example_entries, missing_keys, idx, new_entries, summary_count>>
auditVars == <<issues, exit_code>>
history == <<fs0, asked, answer, prompt_key, fs1>>
callVars == <<value, validation_type, comment, op, result>>

\* ---------------------------------------------------------------- inputs
RECURSIVE JoinLines(_)
JoinLines(lines) ==
    IF lines = <<>> THEN <<>>
    ELSE Head(lines) \o <<"\n">> \o JoinLines(Tail(lines))

SeqsUpTo(pool, n) == UNION {[1..k -> pool] : k \in 0..n}

\* texts of at most n lines of the pool, the last line with or without its
\* newline
Texts(pool, n) ==
    LET full == {JoinLines(ls) : ls \in SeqsUpTo(pool, n)}
    IN  full \cup {SubSeq(t, 1, Len(t) - 1) : t \in full \ {<<>>}}

TemplateLinePool == {
    <<"A","=","1">>,
    <<"B","=","2"," ","#"," ","p","o","r","t"," ","(","I","N","T",")">>,
    <<"C","=","u"," ","#"," ","(","u","r","l",")">> }

EnvLinePool == {
    <<"A","=","5">>,
    <<"B"," ","="," ","\"","6","\""," ","#"," ","x">> }

AuditLinePool == {
    <<"K","=","s","e","c","r","e","t">>,
    <<"P","=">>,
    <<"Q","=","o","k","1">>,
    <<"K","=","f","i","n","e">>,
    <<"R","=","\"","y","o","u","r"," ","k","e","y"," ","h","e","r","e","\""," ","#"," ","T","O","D","O">> }

TemplateFiles == {Some(JoinLines(ls)) : ls \in SeqsUpTo(TemplateLinePool, MaxTemplateLines)}
EnvFiles == {Some(t) : t \in Texts(EnvLinePool, MaxEnvLines)}
AuditFiles == {Some(JoinLines(ls)) : ls \in SeqsUpTo(AuditLinePool, MaxAuditLines)}
OldBackup == Some(<<"Z","=","0","\n">>)

\* what the user may type at a value prompt
Answers == {
    <<"4","2">>,
    <<"s",":","/","/","h">>,
    <<"a"," ","b">>,
    <<"x","#","y">> }

\* what the user may type at the confirmation (Prompt.ask admits only the
\* choices)
ConfirmChoices == {<<"y">>, <<"n">>}

NoCall ==
    /\ value = <<>> /\ validation_type = None /\ comment = None
    /\ op = "none" /\ result = <<>>
NoAudit == /\ issues = <<>> /\ exit_code = None

\* ------------------------------------------------------------- sync steps
Init ==
    /\ \E example \in TemplateFiles \cup {Absent},
          env \in EnvFiles \cup {Absent},
          bak \in {Absent, OldBackup} :
          fs = [p \in Paths |->
                   IF p = "example" THEN example
                   ELSE IF p = "env" THEN env
                   ELSE IF p = "env.bak" THEN bak
                   ELSE Absent]
    /\ backup_path \in {None, Some("custom.bak"), Some("env")}
    /\ pc = "start"
    /\ example_entries = <<>> /\ missing_keys = <<>> /\ idx = 0
    /\ new_entries = <<>> /\ summary_count = None
    /\ ret = "None" /\ console = {}
    /\ fs0 = fs /\ asked = FALSE /\ answer = None /\ prompt_key = None
    /\ fs1 = None
    /\ NoAudit /\ NoCall

\* EnvSyncManager.sync up to the confirmation prompt
SyncStart ==
    /\ pc = "start"
    /\ IF ~Exists(fs["example"])
       THEN /\ console' = console \cup {"not_found"}
            /\ ret' = "False" /\ pc' = "returned"
            /\ UNCHANGED <<example_entries, missing_keys>>
       ELSE LET ex == ParseFile(fs["example"])
                env == ParseFile(fs["env"])
                missing == FindMissingKeys(ex, env)
            IN  /\ example_entries' = ex
                /\ missing_keys' = missing
                /\ IF missing = <<>>
                   THEN /\ console' = console \cup {"in_sync"}
                        /\ ret' = "False" /\ pc' = "returned"
                   ELSE /\ console' = console \cup {"missing_table"}
                        /\ pc' = "confirm" /\ UNCHANGED ret
    /\ UNCHANGED <<fs, backup_path, idx, new_entries, summary_count>>
    /\ UNCHANGED <<auditVars, history, callVars>>

\* The answer to "Proceed with sync?", then the backup and the start of
\* _collect_values, up to the first value prompt.  declined_files are the
\* files sync leaves when the answer is no.
ConfirmStep(response, declined_files) ==
    /\ pc = "confirm"
    /\ IF ~Confirmed(response)
       THEN /\ console' = console \cup {"cancelled"}
            /\ ret' = "False" /\ pc' = "returned"
            /\ fs' = declined_files
            /\ UNCHANGED <<idx, new_entries>>
       ELSE LET b == CreateBackup(fs, backup_path)
            IN  IF b.raised
                THEN /\ pc' = "raised"
                     /\ UNCHANGED <<fs, idx, new_entries, ret, console>>
                ELSE /\ fs' = b.files
                     /\ console' = console \cup {"input_panel"}
                                   \cup (IF b.copied THEN {"backup"} ELSE {})
                     /\ new_entries' = <<>>
                     /\ idx' = 1
                     /\ pc' = "prompt" /\ UNCHANGED ret
    /\ UNCHANGED <<backup_path, example_entries, missing_keys, summary_count>>
    /\ UNCHANGED <<auditVars, history, callVars>>

\* sync that makes the backup before it asks for the confirmation
ConfirmSyncBackupFirst(response) ==
    ConfirmStep(response, CreateBackup(fs, backup_path).files)

\* EnvSyncManager.sync from the confirmation to the first value prompt
ConfirmSync(response) == ConfirmStep(response, fs)

\* The validation type of the key being asked (_collect_values)
CurrentValidationType ==
    ExtractValidationType(Get(example_entries, missing_keys[idx]).comment)

\* One answer to the value prompt of _prompt_for_value, returned when
\* accepted; a returned answer to the last key runs the rest of sync:
\* _append_to_env, _display_summary
PromptStep(v, accepted) ==
    /\ pc = "prompt"
    /\ LET key == missing_keys[idx]
           collected == DictSet(new_entries, [key |-> key, value |-> v])
       IN  /\ asked' = TRUE /\ answer' = Some(v) /\ prompt_key' = Some(key)
           /\ console' = console
                 \cup (IF ~ValidateValue(v, CurrentValidationType).is_valid
                       THEN {"error"} ELSE {})
                 \cup (IF accepted /\ idx = Len(missing_keys)
                       THEN {"summary"} ELSE {})
           /\ IF ~accepted
              THEN UNCHANGED <<fs, idx, new_entries, summary_count, ret, pc>>
              ELSE /\ new_entries' = collected
                   /\ IF idx < Len(missing_keys)
                      THEN /\ idx' = idx + 1
                           /\ UNCHANGED <<fs, summary_count, ret, pc>>
                      ELSE /\ fs' = [fs EXCEPT !["env"] = AppendToEnv(@, collected)]
                           /\ summary_count' = Some(Len(collected))
                           /\ ret' = "True" /\ pc' = "returned"
                           /\ UNCHANGED idx
    /\ UNCHANGED <<backup_path, example_entries, missing_keys, fs0, fs1>>
    /\ UNCHANGED <<auditVars, callVars>>

\* _prompt_for_value that reports an invalid answer and returns it anyway
PromptForValueOnce(v) == PromptStep(v, TRUE)

\* EnvSyncManager._prompt_for_value, one turn of its loop
PromptForValue(v) ==
    PromptStep(v, ValidateValue(v, CurrentValidationType).is_valid)

\* Ctrl-C while a prompt waits: KeyboardInterrupt ends the process
Interrupt ==
    /\ pc \in {"confirm", "prompt"}
    /\ pc' = "interrupted"
    /\ UNCHANGED <<fs, backup_path, syncLocals, ret, console>>
    /\ UNCHANGED <<auditVars, history, callVars>>

Next ==
    \/ SyncStart
    \/ \E response \in ConfirmChoices : ConfirmSync(response)
    \/ \E v \in Answers : PromptForValue(v)
    \/ Interrupt

Spec == Init /\ [][Next]_vars

\* ------------------------------------------------------ sync run twice
\* The sync command invoked again once it has returned True: a new process
\* and a new EnvSyncManager on the files the first run left.
Rerun ==
    /\ pc = "returned" /\ ret = "True" /\ fs1 = None
    /\ fs1' = Some(fs)
    /\ pc' = "start" /\ ret' = "None" /\ console' = {}
    /\ example_entries' = <<>> /\ missing_keys' = <<>> /\ idx' = 0
    /\ new_entries' = <<>> /\ summary_count' = None
    /\ UNCHANGED <<fs, backup_path, fs0, asked, answer, prompt_key>>
    /\ UNCHANGED <<auditVars, callVars>>

\* the first run is given no --backup option and finds no earlier backup
InitResync == Init /\ backup_path = None /\ ~Exists(fs["env.bak"])

NextResync ==
    \/ SyncStart
    \/ \E response \in ConfirmChoices : ConfirmSync(response)
    \/ \E v \in Answers : PromptForValue(v)
    \/ Interrupt
    \/ Rerun

SpecResync == InitResync /\ [][NextResync]_vars

\* ------------------------------------------------------------ audit steps
NoSync ==
    /\ backup_path = None
    /\ example_entries = <<>> /\ missing_keys = <<>> /\ idx = 0
    /\ new_entries = <<>> /\ summary_count = None
    /\ asked = FALSE /\ answer = None /\ prompt_key = None
    /\ fs1 = None

InitAudit ==
    /\ \E env \in AuditFiles \cup {Absent} :
          fs = [p \in Paths |-> IF p = "env" THEN env ELSE Absent]
    /\ pc = "audit"
    /\ ret = "None" /\ console = {}
    /\ fs0 = fs
    /\ NoSync /\ NoAudit /\ NoCall

\* The audit command of the CLI: EnvAuditor.audit, then typer.Exit(1) when
\* it returned True
AuditCommand ==
    /\ pc = "audit"
    /\ LET a == AuditorAudit(fs["env"])
       IN  /\ ret' = IF a.ret THEN "True" ELSE "False"
           /\ issues' = a.issues
           /\ console' = console \cup {a.printed}
           /\ exit_code' = Some(IF a.ret THEN 1 ELSE 0)
    /\ pc' = "exited"
    /\ UNCHANGED <<fs, backup_path, syncLocals, history, callVars>>

NextAudit == AuditCommand

SpecAudit == InitAudit /\ [][NextAudit]_vars

\* -------------------------------------------------------- validator calls
CallValues == {
    <<"4","2">>,
    <<"-","1","0">>,
    <<" ","7"," ">>,
    <<"1","_","0">>,
    <<"+">>,
    <<>>,
    <<"n","o","t","_","a","_","n","u","m","b","e","r">>,
    <<"h","t","t","p","s",":","/","/","e","x","a","m","p","l","e",".","c","o","m">>,
    <<"e","x","a","m","p","l","e",".","c","o","m">>,
    <<"h","t","t","p",":","/","/","[","x">>,
    <<"H","T","T","P",":","/","/","h","/","p">>,
    <<"/","/","h">>,
    <<"h",":","1">>,
    <<" "," "," ">>,
    <<"Y","O","U","R","_","A","P","I","_","K","E","Y","_","H","E","R","E">>,
    <<"s","e","c","r","e","t">>,
    <<"s","e","c","r","e","t","1">>,
    <<"c","h","a","n","g","e"," ","m","e">> }

CallValidationTypes == {
    None,
    Some(<<>>),
    Some(<<"i","n","t">>),
    Some(<<"I","N","T">>),
    Some(<<" ","I","n","t"," ">>),
    Some(<<"u","r","l">>),
    Some(<<"U","R","L"," ">>),
    Some(<<"s","t","r">>),
    Some(<<"i","n","t","e","g","e","r">>),
    Some(<<"i"," ","n","t">>) }

CallComments == {
    None,
    Some(<<>>),
    Some(<<"(","i","n","t",")">>),
    Some(<<"(","I","N","T",")">>),
    Some(<<"(","I","n","t",")">>),
    Some(<<"s","o","m","e"," ","t","e","x","t"," ","(","u","r","l",")"," ","m","o","r","e"," ","t","e","x","t">>),
    Some(<<"n","o"," ","v","a","l","i","d","a","t","i","o","n">>),
    Some(<<"(",")">>),
    Some(<<"(","a"," ","b",")"," ","(","U","r","l",")">>),
    Some(<<"(","(","x","_","1",")">>),
    Some(<<"(","i","n","t">>),
    Some(<<"p","o","r","t"," ","(","I","N","T",")"," ","(","u","r","l",")">>) }

InitValidator ==
    /\ fs = [p \in Paths |-> Absent] /\ fs0 = fs
    /\ pc = "call" /\ ret = "None" /\ console = {}
    /\ NoSync /\ NoAudit
    /\ value \in CallValues
    /\ validation_type \in CallValidationTypes
    /\ comment \in CallComments
    /\ op = "none" /\ result = <<>>

Call(name, returned) ==
    /\ pc = "call"
    /\ op' = name /\ result' = <<returned>>
    /\ pc' = "called"
    /\ UNCHANGED <<fs, backup_path, syncLocals, ret, console, auditVars, history,
                   value, validation_type, comment>>

CallValidateInt == Call("validate_int", ValidateInt(value))
CallValidateUrl == Call("validate_url", ValidateUrl(value))
CallValidateValue == Call("validate_value", ValidateValue(value, validation_type))
CallExtractValidationType ==
    Call("extract_validation_type", ExtractValidationType(comment))
CallIsPlaceholder == Call("is_placeholder", IsPlaceholder(value))

NextValidator ==
    \/ CallValidateInt
    \/ CallValidateUrl
    \/ CallValidateValue
    \/ CallExtractValidationType
    \/ CallIsPlaceholder

SpecValidator == InitValidator /\ [][NextValidator]_vars

\* ----------------------------------------------------------- parser calls
ParserLinePool == {
    <<"A","=","1">>,
    <<"A"," ","="," ","\"","2","\""," ","#"," ","c">>,
    <<"B","=","x">>,
    <<"#"," ","A","=","9">>,
    <<" "," ">>,
    <<"A"," ","B","=","1">> }

ParserFiles == {Some(t) : t \in Texts(ParserLinePool, MaxParseLines)}

\* values handed to format_entry
RoundTripValues == {
    <<"v","a","l","u","e">>,
    <<"a"," ","b">>,
    <<"x","#","y">>,
    <<"a","$","b">>,
    <<"a","\\","b">> }

RoundTripKey == <<"K","E","Y">>

InitParser ==
    /\ \E file \in ParserFiles \cup {Absent} :
          fs = [p \in Paths |-> IF p = "env" THEN file ELSE Absent]
    /\ fs0 = fs
    /\ pc = "call" /\ ret = "None" /\ console = {}
    /\ NoSync /\ NoAudit
    /\ value \in RoundTripValues
    /\ validation_type = None /\ comment = None
    /\ op = "none" /\ result = <<>>

CallParseFile == Call("parse_file", ParseFile(fs["env"]))

\* format_entry(KEY, value), written as a line of a file that parse_file
\* then reads
CallFormatThenParse ==
    Call("format_then_parse",
         ParseFile(Some(FormatEntry(RoundTripKey, value) \o <<"\n">>)))

NextParser ==
    \/ CallParseFile
    \/ CallFormatThenParse

SpecParser == InitParser /\ [][NextParser]_vars

\* ------------------------------------------------- placeholder detection
\* is_placeholder and _get_placeholder_reason called on a value, and the
\* audit command that calls them on the entries of a file
CallGetPlaceholderReason ==
    Call("get_placeholder_reason", GetPlaceholderReason(value))

InitPlaceholder == InitAudit \/ InitValidator

NextPlaceholder ==
    \/ AuditCommand
    \/ CallIsPlaceholder
    \/ CallGetPlaceholderReason

SpecPlaceholder == InitPlaceholder /\ [][NextPlaceholder]_vars

\* ================================================================ claims
Range(s) == {s[i] : i \in 1..Len(s)}
PreEnvText == IF Exists(fs0["env"]) THEN fs0["env"][1] ELSE <<>>
BackupTarget == IF IsNone(backup_path) THEN "env.bak" ELSE backup_path[1]
\* the confirmation was answered yes and sync went on to collect values
SyncConfirmed == "input_panel" \in console
SyncSucceeded == pc = "returned" /\ ret = "True"
TemplateEntries == ParseFile(fs0["example"])
\* the hint of key k's template comment (example_entries is the parsed template)
HintOf(k) == ExtractValidationType(Get(example_entries, k).comment)

\* C1: in every state of a sync up to and including its last value prompt
\* (re-prompts and an interrupt at a prompt included), the actual file is
\* what it was before the sync: it is written, or created, only once all
\* values are collected.
C1_NoWriteBeforeAllCollected ==
    ~SyncSucceeded => fs["env"] = fs0["env"]

\* an interrupt at the prompt of the last key, after a rejected answer and
\* an accepted one, of a sync whose actual file exists
C1_Witness ==
    /\ pc = "interrupted" /\ asked
    /\ Len(missing_keys) >= 2 /\ idx = Len(missing_keys)
    /\ "error" \in console
    /\ Exists(fs0["env"]) /\ fs["env"] = fs0["env"]

\* C2: when sync returns False (no template, nothing missing, or the user
\* declined) no file was created or changed, the backup included, and no
\* value prompt was issued.
C2_NoChangesNoSideEffects ==
    (pc = "returned" /\ ret = "False") =>
        /\ fs = fs0
        /\ ~asked
        /\ \/ ~Exists(fs0["example"])
           \/ \A k \in Range(Keys(TemplateEntries)) : HasKey(ParseFile(fs0["env"]), k)
           \/ "cancelled" \in console

\* the user declined a sync whose actual file and whose backup both exist
C2_Witness ==
    /\ pc = "returned" /\ ret = "False" /\ "cancelled" \in console
    /\ Exists(fs0["env"]) /\ fs0["env.bak"] = OldBackup /\ backup_path = None

\* C3: in a confirmed sync whose actual file exists the backup (at the
\* caller's path, else <actual>.bak) holds the pre-sync content of the
\* actual file from before the first value prompt and before any write to
\* the actual file, and still when sync finishes; when the actual file does
\* not exist no backup file is created.
C3_BackupBeforePrompt ==
    /\ (Exists(fs0["env"]) /\ (pc = "prompt" \/ asked \/ SyncConfirmed
                                \/ fs["env"] # fs0["env"] \/ SyncSucceeded))
          => fs[BackupTarget] = fs0["env"]
    /\ ~Exists(fs0["env"]) => \A p \in Paths \ {"env"} : fs[p] = fs0[p]

\* a finished sync that wrote the actual file, the backup at the caller's path
C3_Witness ==
    /\ SyncSucceeded /\ Exists(fs0["env"])
    /\ backup_path = Some("custom.bak")
    /\ fs["custom.bak"] = fs0["env"] /\ fs["env"] # fs0["env"]
    /\ fs["env.bak"] = fs0["env.bak"]

\* C4: the missing-key list sync has computed (it stands at the confirmation,
\* or has returned "in sync") holds exactly the template keys that are no
\* key of the actual map, each once, in the template's order; a nonexistent
\* actual file makes every template key missing.
C4_MissingKeys ==
    (pc = "confirm" \/ (pc = "returned" /\ "in_sync" \in console)) =>
        LET tk == Keys(TemplateEntries)
            actual == ParseFile(fs0["env"])
            pos(k) == CHOOSE i \in 1..Len(tk) : tk[i] = k
        IN  /\ Range(missing_keys) = {k \in Range(tk) : ~HasKey(actual, k)}
            /\ \A i, j \in 1..Len(missing_keys) :
                  i < j => /\ missing_keys[i] # missing_keys[j]
                           /\ pos(missing_keys[i]) < pos(missing_keys[j])
            /\ ~Exists(fs0["env"]) => missing_keys = tk

\* template {A,B,C}, actual {A}: missing is [B,C]
C4_Witness ==
    /\ pc = "confirm"
    /\ Keys(TemplateEntries) = <<<<"A">>, <<"B">>, <<"C">>>>
    /\ Keys(ParseFile(fs0["env"])) = <<<<"A">>>>
    /\ missing_keys = <<<<"B">>, <<"C">>>>

\* C5: after a successful sync the actual file is its pre-sync content,
\* then one newline iff it existed and was non-empty, then the marker line,
\* then one formatted line per missing key in template order, and nothing
\* else; the reported count is the number of missing keys.
C5_AppendedContent ==
    SyncSucceeded =>
        LET pre == PreEnvText
            now == fs["env"][1]
            blank == IF Exists(fs0["env"]) /\ pre # <<>> THEN <<"\n">> ELSE <<>>
            n == Len(pre) + Len(blank)
            added == FileLines(SubSeq(now, n + 1, Len(now)))
        IN  /\ Exists(fs["env"])
            /\ Len(now) >= n
            /\ SubSeq(now, 1, Len(pre)) = pre
            /\ SubSeq(now, Len(pre) + 1, n) = blank
            /\ Len(added) = 1 + Len(missing_keys)
            /\ added[1] = Marker
            /\ Len(new_entries) = Len(missing_keys)
            /\ \A i \in 1..Len(missing_keys) :
                  /\ new_entries[i].key = missing_keys[i]
                  /\ added[i + 1] =
                        FormatEntry(missing_keys[i], new_entries[i].value) \o <<"\n">>
            /\ summary_count = Some(Len(missing_keys))

\* two keys added to an actual file that did not end with a newline
C5_Witness ==
    /\ SyncSucceeded
    /\ missing_keys = <<<<"A">>, <<"C">>>>
    /\ fs0["env"] = Some(<<"B"," ","="," ","\"","6","\""," ","#"," ","x">>)
    /\ new_entries[1].value = <<"a"," ","b">>

\* C6: keys are asked in template order, a rejected answer is followed by a
\* prompt for the same key, and no value is collected or written for a key
\* unless validate_value accepts it for the hint of that key's template
\* comment.
C6_OnlyValidValuesCollected ==
    /\ \A i \in 1..Len(new_entries) :
          /\ new_entries[i].key = missing_keys[i]
          /\ ValidateValue(new_entries[i].value, HintOf(missing_keys[i])).is_valid
    /\ pc = "prompt" => idx = Len(new_entries) + 1
    /\ ~IsNone(answer) =>
          IF ValidateValue(answer[1], HintOf(prompt_key[1])).is_valid
          THEN /\ Len(new_entries) >= 1
               /\ new_entries[Len(new_entries)] =
                     [key |-> prompt_key[1], value |-> answer[1]]
          ELSE /\ pc \in {"prompt", "interrupted"}
               /\ Len(new_entries) < Len(missing_keys)
               /\ missing_keys[Len(new_entries) + 1] = prompt_key[1]
    /\ SyncSucceeded =>
          LET lines == FileLines(fs["env"][1])
              m == Len(missing_keys)
          IN  \A i \in 1..m :
                 \E v \in Answers :
                    /\ ValidateValue(v, HintOf(missing_keys[i])).is_valid
                    /\ lines[Len(lines) - m + i] =
                          FormatEntry(missing_keys[i], v) \o <<"\n">>

\* a sync that rejected an answer, then finished with an integer for the
\* key hinted (INT) and a URL for the key hinted (url)
C6_Witness ==
    /\ SyncSucceeded /\ "error" \in console
    /\ missing_keys = <<<<"B">>, <<"C">>>>
    /\ new_entries[1].value = <<"4","2">>
    /\ HintOf(<<"B">>) = Some(<<"I","N","T">>)

\* the (word) tokens of a comment: "(" at i, ")" at j, word characters only
\* and at least one between
C7Tokens(s) ==
    {t \in (1..Len(s)) \X (1..Len(s)) :
        /\ s[t[1]] = "(" /\ s[t[2]] = ")" /\ t[2] > t[1] + 1
        /\ \A k \in (t[1] + 1)..(t[2] - 1) : IsWordChar(s[k])}
C7Comment == IF IsNone(comment) THEN <<>> ELSE comment[1]

\* C7, as claimed: extract_validation_type returns the lowercase contents of
\* the first (word) token.
C7_Original ==
    op = "extract_validation_type" =>
        LET s == C7Comment
        IN  IF C7Tokens(s) = {} THEN result[1] = None
            ELSE \E t \in C7Tokens(s) :
                    /\ \A u \in C7Tokens(s) : t[1] <= u[1]
                    /\ result[1] = Some(Lower(SubSeq(s, t[1] + 1, t[2] - 1)))

\* C7, amended: extract_validation_type returns the contents of the first
\* (word) token as written, letter case kept ("(INT)" gives "INT"), and None
\* when the comment is None, empty, or holds no such token.
C7_Verbatim ==
    op = "extract_validation_type" =>
        LET s == C7Comment
        IN  IF C7Tokens(s) = {} THEN result[1] = None
            ELSE \E t \in C7Tokens(s) :
                    /\ \A u \in C7Tokens(s) : t[1] <= u[1]
                    /\ result[1] = Some(SubSeq(s, t[1] + 1, t[2] - 1))

\* "(a b) (Url)": the first parenthesis is no token, the second is returned
\* as written
C7_Witness ==
    /\ op = "extract_validation_type"
    /\ comment = Some(<<"(","a"," ","b",")"," ","(","U","r","l",")">>)
    /\ result[1] = Some(<<"U","r","l">>)

\* C8: validate_value accepts every value when the hint is None or, lowered
\* and trimmed, neither "int" nor "url"; for "int" / "url" in any case and
\* with blanks around it returns what validate_int / validate_url returns.
C8_HintDispatch ==
    op = "validate_value" =>
        LET h == IF IsNone(validation_type) THEN <<>>
                 ELSE Strip(Lower(validation_type[1]))
        IN  /\ (IsNone(validation_type) \/ h \notin {<<"i","n","t">>, <<"u","r","l">>})
                  => result[1].is_valid
            /\ h = <<"i","n","t">> =>
                  /\ result[1] = ValidateInt(value)
                  /\ result[1].is_valid = IntParses(value)
            /\ h = <<"u","r","l">> => result[1] = ValidateUrl(value)

\* the hint " Int " rejects a value that is no integer
C8_Witness ==
    /\ op = "validate_value"
    /\ validation_type = Some(<<" ","I","n","t"," ">>)
    /\ value = <<"+">>
    /\ ~result[1].is_valid

\* C9: a ValidationResult of validate_int, validate_url or validate_value
\* carries an error message iff it is not valid.
C9_MessageIffInvalid ==
    op \in {"validate_int", "validate_url", "validate_value"} =>
        (~IsNone(result[1].error_message) <=> ~result[1].is_valid)

\* validate_url rejecting a value without a scheme, with its message
C9_Witness ==
    /\ op = "validate_url"
    /\ value = <<"e","x","a","m","p","l","e",".","c","o","m">>
    /\ ~result[1].is_valid /\ ~IsNone(result[1].error_message)

\* C10: audit returns True, and the CLI exits with 1, iff the file exists
\* and some parsed entry has a placeholder value (else False and 0); the
\* issues are the placeholder entries, one each, in the order of the
\* entries; the file is not changed.
C10_AuditSignal ==
    pc = "exited" =>
        LET entries == ParseFile(fs0["env"])
            bad == {i \in 1..Len(entries) : IsPlaceholder(entries[i].value)}
            \* the n-th placeholder entry
            nth(n) == CHOOSE i \in bad : Cardinality({j \in bad : j < i}) = n - 1
        IN  /\ (ret = "True") <=> (Exists(fs0["env"]) /\ bad # {})
            /\ ret \in {"True", "False"}
            /\ exit_code = Some(IF ret = "True" THEN 1 ELSE 0)
            /\ ret = "True" =>
                  /\ Len(issues) = Cardinality(bad)
                  /\ \A n \in 1..Len(issues) :
                        /\ issues[n].key = entries[nth(n)].key
                        /\ issues[n].value = entries[nth(n)].value
            /\ fs = fs0

\* three entries, the first and the last placeholders: two issues, exit 1
C10_Witness ==
    /\ pc = "exited" /\ ret = "True" /\ exit_code = Some(1)
    /\ Len(ParseFile(fs["env"])) = 3
    /\ Len(issues) = 2
    /\ issues[1].key = <<"P">> /\ issues[2].key = <<"R">>

\* the lines of the parsed file, without their newline
C11Lines == IF Exists(fs["env"])
            THEN [i \in 1..Len(FileLines(fs["env"][1])) |->
                     RStripNewline(FileLines(fs["env"][1])[i])]
            ELSE <<>>
\* line i is a well-formed KEY=value line: not blank, no comment line, and
\* matched by the pattern
C11WellFormed(i) ==
    /\ Strip(C11Lines[i]) # <<>>
    /\ Strip(C11Lines[i])[1] # "#"
    /\ EnvLineMatch(C11Lines[i]) # <<>>
C11Key(i) == EnvLineMatch(C11Lines[i])[1].g1

\* C11: parse_file returns, for any lines, one entry per distinct key of a
\* well-formed KEY=value line, holding the value and comment of the last
\* such line of that key; blank lines, comment lines and lines that do not
\* match give no entry and change none.
C11_LastWriteWins ==
    op = "parse_file" =>
        LET entries == result[1]
            wf == {i \in 1..Len(C11Lines) : C11WellFormed(i)}
        IN  /\ {entries[n].key : n \in 1..Len(entries)} = {C11Key(i) : i \in wf}
            /\ Len(entries) = Cardinality({C11Key(i) : i \in wf})
            /\ \A n \in 1..Len(entries) :
                  LET last == MaxOf({i \in wf : C11Key(i) = entries[n].key})
                      g == EnvLineMatch(C11Lines[last])[1]
                  IN  /\ entries[n].value = UnquoteValue(Strip(g.g2))
                      /\ entries[n].comment =
                            (IF IsNone(g.g3) \/ g.g3 = Some(<<>>)
                             THEN None ELSE Some(Strip(g.g3[1])))

\* A=1, a line that does not match, then A = "2" # c: one entry, of the last
C11_Witness ==
    /\ op = "parse_file"
    /\ fs["env"] = Some(<<"A","=","1","\n","A"," ","B","=","1","\n","A"," ","="," ","\"","2","\""," ","#"," ","c","\n">>)
    /\ result[1] = <<EnvEntry(<<"A">>, <<"2">>, Some(<<"c">>))>>

C12Reason(v) ==
    IF Strip(v) = <<>> THEN "Empty value" ELSE "Contains placeholder text"

\* C12: for a value is_placeholder accepts, _get_placeholder_reason returns
\* "Empty value" when it is empty or blank and "Contains placeholder text"
\* otherwise, never "Suspicious value"; so does every issue of audit.
C12_SuspiciousUnreachable ==
    /\ (op = "get_placeholder_reason" /\ IsPlaceholder(value))
          => result[1] = C12Reason(value)
    /\ \A n \in 1..Len(issues) : issues[n].reason = C12Reason(issues[n].value)

\* an audit that reports an empty value and a placeholder text
C12_Witness ==
    /\ pc = "exited" /\ Len(issues) = 2
    /\ issues[1].reason = "Empty value" /\ issues[1].value = <<>>
    /\ issues[2].reason = "Contains placeholder text"
    /\ issues[2].value = <<"s","e","c","r","e","t">>

\* C13: after a sync that returned True the env file, parsed again, has
\* every key of the template; a sync run right after it finds nothing
\* missing, reports "already in sync", returns False and changes no file.
C13_SyncConverges ==
    /\ SyncSucceeded =>
          \A n \in 1..Len(TemplateEntries) :
             HasKey(ParseFile(fs["env"]), TemplateEntries[n].key)
    /\ (fs1 # None /\ pc # "start") =>
          /\ pc = "returned" /\ ret = "False"
          /\ console = {"in_sync"}
          /\ fs = fs1[1]

\* the second run has returned; the first one appended two keys to a file
\* that did not end with a newline
C13_Witness ==
    /\ fs1 # None /\ pc = "returned" /\ "in_sync" \in console
    /\ PreEnvText = <<"B"," ","="," ","\"","6","\""," ","#"," ","x">>
    /\ Len(missing_keys) = 0 /\ Len(ParseFile(fs["env"])) = 3
    /\ fs["env"] # fs0["env"]

\* C14: parsing the line format_entry(K, V) yields an entry for K whose
\* value is exactly V, also when V holds a space, '#', '$' or '\'.
C14_RoundTrip ==
    op = "format_then_parse" =>
        /\ HasKey(result[1], RoundTripKey)
        /\ Get(result[1], RoundTripKey).value = value

\* V = x#y is written as KEY="x#y" and read back as the value "x with the
\* comment y": ENV_LINE_PATTERN ends the value at the first '#'
C14_Witness ==
    /\ op = "format_then_parse"
    /\ value = <<"x","#","y">>
    /\ result[1] = <<EnvEntry(RoundTripKey, <<"\"","x">>, Some(<<"y","\"">>))>>

====
